---------------------------- MODULE Spec2Model ----------------------------
(***************************************************************************)
(* ScreenShake2D (arcade/camera/grips/screen_shake_2d.py): a controller    *)
(* that offsets a shared camera position to produce a screen shake.        *)
(*                                                                         *)
(* Number representation.                                                  *)
(*   - Times and durations (seconds) are exact rationals <<n, d>>, d > 0,  *)
(*     in lowest terms, so that sums, ratios and comparisons of the code's *)
(*     floats are modelled in exact arithmetic.                            *)
(*   - Amplitudes, offsets and camera coordinates are fixed-point          *)
(*     integers counting 1/AmpScale world units.  sin and exp are          *)
(*     evaluated by rational approximations (see SinTurns, ExpLog).        *)
(***************************************************************************)
EXTENDS Integers, Sequences, FiniteSets, TLC

VARIABLES
    position,               \* self._data.position, <<x, y, z>>
    max_amplitude,          \* self.max_amplitude
    falloff_duration,       \* self.falloff_duration
    shake_frequency,        \* self.shake_frequency
    acceleration_duration,  \* self._acceleration_duration
    direction_deg,          \* self.direction_deg (None or <<degrees>>)
    shaking,                \* self._shaking
    length_shaking,         \* self._length_shaking
    current_dir,            \* self._current_dir
    last_vector,            \* self._last_vector
    last_update_time,       \* self._last_update_time
    call,                   \* the call that produced this state and its outcome
    first_position,         \* position before the controller's first mutation
    start_position,         \* position immediately before the last start()
    run,                    \* the calls since the last start(), see Start
    leaks,                  \* number of offsets reset() left on the position
    written,                \* what other writers added to position since start()
    writes                  \* number of writes to position by other writers

config == <<max_amplitude, falloff_duration, shake_frequency,
            acceleration_duration, direction_deg>>
transient == <<shaking, length_shaking, current_dir, last_vector,
               last_update_time>>
history == <<first_position, start_position, run, leaks, written, writes>>
vars == <<position, config, transient, call, history>>

---------------------------------------------------------------------------
(* Bounds of the model *)

\* largest numerator and denominator of a duration that is followed while
\* the shake runs (Spec), and while only the properties are used (SpecConfig)
MaxDen == 2
MaxConfigDen == 6
\* largest number of offsets reset() may leave on the camera position
MaxLeaks == 1
\* largest number of writes to the camera position by other writers
MaxWrites == 2

\* fixed-point resolution: the 0.0001 of _acceleration_amp
AmpScale == 10000

---------------------------------------------------------------------------
(* Exact rational arithmetic, for the float arithmetic on times *)

Abs(x) == IF x < 0 THEN -x ELSE x

RECURSIVE GCD(_, _)
GCD(a, b) == IF b = 0 THEN a ELSE GCD(b, a % b)

\* n/d in lowest terms with a positive denominator (d # 0)
Rat(n, d) ==
    LET g == GCD(Abs(n), Abs(d))
        s == IF d < 0 THEN -1 ELSE 1
    IN  <<s * (n \div g) , s * (d \div g)>>

Zero == <<0, 1>>
RAdd(p, q) == Rat(p[1] * q[2] + q[1] * p[2], p[2] * q[2])
RSub(p, q) == Rat(p[1] * q[2] - q[1] * p[2], p[2] * q[2])
RMul(p, q) == Rat(p[1] * q[1], p[2] * q[2])
\* p / q; the caller has excluded q = 0 (ZeroDivisionError)
RDiv(p, q) == Rat(p[1] * q[2], p[2] * q[1])
RLe(p, q) == p[1] * q[2] <= q[1] * p[2]
RLt(p, q) == p[1] * q[2] < q[1] * p[2]
IsZero(p) == p[1] = 0
IsNeg(p) == p[1] < 0

---------------------------------------------------------------------------
(* Fixed-point arithmetic, for amplitudes and offsets *)

Sign(x) == IF x < 0 THEN -1 ELSE 1
\* product of two fixed-point numbers
FMul(x, y) == Sign(x) * Sign(y) * ((Abs(x) * Abs(y)) \div AmpScale)
\* a rational as a fixed-point number
ToFixed(p) == Sign(p[1]) * ((Abs(p[1]) * AmpScale) \div p[2])

\* sin(pi * a/b) for 0 <= a/b <= 1, by Bhaskara's rational approximation
\* 16x(1-x) / (5 - 4x(1-x)); exact at x = 0, 1/6, 1/2, 5/6, 1
SinHalfTurn(a, b) ==
    (AmpScale * 16 * a * (b - a)) \div (5 * b * b - 4 * a * (b - a))

\* sin(2 * pi * p) for a rational number of turns p
SinTurns(p) ==
    LET d == p[2]
        n == p[1] % d
    IN  IF 2 * n <= d THEN SinHalfTurn(2 * n, d)
                      ELSE -SinHalfTurn(2 * n - d, d)

\* exp(log(0.0001 / 1.0001) * _t) = 10001^(-_t) at _t = 0, 1/4, 1/2, 3/4, 1
ExpLogSamples == <<10000, 1000, 100, 10, 1>>

\* exp(log(0.0001 / 1.0001) * _t) for 0 <= _t <= 1: the samples, linearly
\* interpolated in between
ExpLog(t) ==
    LET n == 4 * t[1]
        d == t[2]
        k == n \div d
        r == n - k * d
    IN  IF k >= 4 THEN ExpLogSamples[5]
        ELSE ExpLogSamples[k + 1]
               - ((ExpLogSamples[k + 1] - ExpLogSamples[k + 2]) * r) \div d

---------------------------------------------------------------------------
(* Inputs: constructor arguments, call arguments, random draws *)

\* an optional value: <<>> is None, <<v>> is v
None == <<>>

InitialPositions == {<<AmpScale, 2 * AmpScale, 3 * AmpScale>>}
MaxAmplitudes == {AmpScale, 2 * AmpScale}
FalloffTimes == {<<-1, 1>>, Zero, <<1, 3>>, <<1, 1>>}
AccelerationDurations == {<<-1, 1>>, Zero, <<1, 2>>, <<1, 1>>}
ShakeFrequencies == {<<1, 1>>}
Directions == {None, <<90>>}
\* update(delta_time): the driving loop passes non-negative times
DeltaTimes == {Zero, <<1, 4>>}
\* uniform(0, 2 * pi), in turns
RandomAngles == {<<1, 8>>, <<1, 2>>}
\* arguments of the duration, acceleration_duration, acceleration and
\* falloff setters
DurationArgs == {<<-1, 1>>, Zero, <<1, 2>>, <<1, 1>>, <<2, 1>>, <<3, 1>>}
AccelerationDurationArgs == {<<-1, 1>>, Zero, <<1, 2>>, <<1, 1>>}
AccelerationArgs == {<<-1, 1>>, Zero, <<1, 1>>, <<2, 1>>}
FalloffArgs == {<<-1, 1>>, Zero, <<15, 8>>, <<15, 4>>}
\* the arguments of the duration setter while the shake runs
ShakeDurationArgs == {Zero, <<1, 1>>}
\* the translations other writers add to the camera position
Translations == {<<AmpScale, 0, 0>>, <<0, -AmpScale, AmpScale>>}

\* the durations the model follows
InBounds(p, max) == p[2] <= max /\ Abs(p[1]) <= max
DurationsWithin(max) ==
    /\ InBounds(acceleration_duration', max)
    /\ InBounds(falloff_duration', max)
\* a reset() that leaves an applied offset on the position is followed
\* MaxLeaks times
CountLeak ==
    /\ last_vector = <<0, 0, 0>> \/ leaks < MaxLeaks
    /\ leaks' = IF last_vector = <<0, 0, 0>> THEN leaks ELSE leaks + 1

---------------------------------------------------------------------------
(* Properties and the amplitude equations *)

\* duration (getter)
Duration ==
    IF IsNeg(falloff_duration)
    THEN acceleration_duration
    ELSE RAdd(acceleration_duration, falloff_duration)

\* acceleration (getter)
Acceleration ==
    IF RLe(acceleration_duration, Zero)
    THEN Zero
    ELSE RDiv(<<1, 1>>, acceleration_duration)

\* falloff (getter) divides by falloff_duration whenever it is not negative
FalloffRaises == ~IsNeg(falloff_duration) /\ IsZero(falloff_duration)

\* falloff (getter), where it does not raise
Falloff ==
    IF IsNeg(falloff_duration)
    THEN <<-1, 1>>
    ELSE RMul(<<15, 8>>, RDiv(<<1, 1>>, falloff_duration))

\* _acceleration_amp
AccelerationAmp(t) == (AmpScale + 1) - FMul(AmpScale + 1, ExpLog(t))

\* _falloff_amp, evaluated in fixed point in the order the code multiplies
FalloffAmp(t) ==
    LET x == ToFixed(t)
        cube == FMul(FMul(x, x), x)
    IN  AmpScale
          - FMul(cube, FMul(x, FMul(x, 6 * AmpScale) - 15 * AmpScale)
                         + 10 * AmpScale)

\* _calc_max_amp at _length_shaking = t raises ZeroDivisionError: the first
\* branch divides by _acceleration_duration without testing it
CalcMaxAmpRaises(t) ==
    RLe(t, acceleration_duration) /\ IsZero(acceleration_duration)

\* _calc_max_amp at _length_shaking = t, where it does not raise
CalcMaxAmp(t) ==
    IF RLe(t, acceleration_duration)
    THEN AccelerationAmp(RDiv(t, acceleration_duration))
    ELSE IF IsNeg(falloff_duration)
    THEN max_amplitude
    ELSE IF RLe(t, Duration)
    THEN FalloffAmp(RDiv(RSub(t, acceleration_duration), falloff_duration))
    ELSE 0

\* _calc_amplitude at _length_shaking = t
CalcAmplitude(t) ==
    LET max_amp == CalcMaxAmp(t)
        sin_amp == SinTurns(RMul(shake_frequency, t))
    IN  FMul(sin_amp, max_amp)

\* current_amplitude at _length_shaking = t
CurrentAmplitude(t) == FMul(CalcAmplitude(t), max_amplitude)

---------------------------------------------------------------------------
(* The record of the last call *)

\* op: the operation; arg: its argument; raised: it ended in an exception;
\* ret: the duration or rate a getter returned; amp: the amplitude that
\* current_amplitude returned or update() computed; stopped: update() ended
\* the shake itself; was_shaking: _shaking when the call was made
Call(op, arg, raised, ret, amp) ==
    [op |-> op, arg |-> arg, raised |-> raised, ret |-> ret, amp |-> amp,
     stopped |-> FALSE, was_shaking |-> shaking]

Returned(op, arg) == Call(op, arg, FALSE, Zero, 0)
Raised(op, arg) == Call(op, arg, TRUE, Zero, 0)

---------------------------------------------------------------------------
(* Construction *)

\* __init__: every argument is stored as given; the shake is off
Init ==
    /\ position \in InitialPositions
    /\ max_amplitude \in MaxAmplitudes
    /\ falloff_duration \in FalloffTimes
    /\ shake_frequency \in ShakeFrequencies
    /\ acceleration_duration \in AccelerationDurations
    /\ direction_deg \in Directions
    /\ shaking = FALSE
    /\ length_shaking = Zero
    /\ current_dir = Zero
    /\ last_vector = <<0, 0, 0>>
    /\ last_update_time = Zero
    /\ call = Returned("__init__", Zero)
    /\ first_position = position
    /\ start_position = position
    /\ run = "none"
    /\ leaks = 0
    /\ written = <<0, 0, 0>>
    /\ writes = 0

---------------------------------------------------------------------------
(* reset, start, stop, update *)

\* a wrong reset(): the last offset is not forgotten
ResetKeepsVector ==
    /\ current_dir' = Zero
    /\ last_update_time' = Zero
    /\ length_shaking' = Zero
    /\ UNCHANGED last_vector

\* a wrong reset(): the elapsed time is not forgotten
ResetKeepsTime ==
    /\ current_dir' = Zero
    /\ last_vector' = <<0, 0, 0>>
    /\ last_update_time' = Zero
    /\ UNCHANGED length_shaking

\* the assignments of reset()
ResetTransient ==
    /\ current_dir' = Zero
    /\ last_vector' = <<0, 0, 0>>
    /\ last_update_time' = Zero
    /\ length_shaking' = Zero

\* a wrong stop(): the last offset is left on the position
UndoNothing(pos, vec) == pos

\* the position stop() writes: pos with the last offset vec taken off
Undo(pos, vec) == <<pos[1] - vec[1], pos[2] - vec[2], pos[3] - vec[3]>>

\* a wrong update(): the offset is put on the position start() found
ApplyToStart(pos, vec, offset_x, offset_y) ==
    <<start_position[1] + offset_x, start_position[2] + offset_y,
      start_position[3]>>

\* a wrong update(): the x offset is put on z as well
ApplyShakesZ(pos, vec, offset_x, offset_y) ==
    <<pos[1] - vec[1] + offset_x, pos[2] - vec[2] + offset_y,
      pos[3] - vec[3] + offset_x>>

\* the position update() writes: pos with vec replaced by the new offset
Apply(pos, vec, offset_x, offset_y) ==
    <<pos[1] - vec[1] + offset_x, pos[2] - vec[2] + offset_y, pos[3] - vec[3]>>

\* reset()
Reset ==
    /\ ResetTransient
    /\ UNCHANGED <<position, config, shaking>>
    /\ call' = Returned("reset", Zero)
    /\ run' = "none"
    /\ CountLeak
    /\ UNCHANGED <<first_position, start_position, written, writes>>

\* start().  run records the shape of the call sequence from here on:
\*   "started"  start() was called on a controller that was not shaking, and
\*              only update() and property accesses followed;
\*   "shaken"   the same, and an update() has moved the camera;
\*   "stopped", "restored"  stop() was called after "started", "shaken";
\*   "none"     anything else.
Start ==
    /\ ResetTransient
    /\ shaking' = TRUE
    /\ UNCHANGED <<position, config>>
    /\ call' = Returned("start", Zero)
    /\ run' = IF shaking THEN "none" ELSE "started"
    /\ start_position' = position
    /\ written' = <<0, 0, 0>>
    /\ CountLeak
    /\ UNCHANGED <<first_position, writes>>

\* stop(): the second definition of the class body, which replaces the first
Stop ==
    /\ position' = Undo(position, last_vector)
    /\ ResetTransient
    /\ shaking' = FALSE
    /\ UNCHANGED config
    /\ call' = Returned("stop", Zero)
    /\ run' = CASE run = "started" -> "stopped"
                 [] run = "shaken" -> "restored"
                 [] OTHER -> "none"
    /\ UNCHANGED <<first_position, start_position, leaks, written, writes>>

\* a wrong test for the end of the shake: > where the code has >=
ShakeOverStrict(t) == RLt(Duration, t)

\* update(): the shake is over at _length_shaking = t
ShakeOver(t) == RLe(Duration, t)

\* a wrong update(): the angle is drawn at random whatever direction_deg is
AnglesAlwaysRandom == RandomAngles

\* the angle update() draws, in turns
Angles ==
    IF direction_deg = None
    THEN RandomAngles
    ELSE {Rat(direction_deg[1], 360)}

\* a wrong update(): it does not test _shaking
NotShakingIgnored == FALSE

\* update(): the test that makes it return at once
NotShaking == ~shaking

\* update(delta_time)
Update(delta_time, angle) ==
    /\ UNCHANGED <<config, first_position, start_position, leaks, written,
                   writes>>
    /\ IF NotShaking
       THEN /\ call' = Returned("update", delta_time)
            /\ UNCHANGED <<position, transient>>
       ELSE LET t == RAdd(length_shaking, delta_time) IN
            IF CalcMaxAmpRaises(t)
            THEN /\ length_shaking' = t
                 /\ call' = Raised("update", delta_time)
                 /\ UNCHANGED <<position, shaking, current_dir, last_vector,
                                last_update_time>>
            ELSE LET amplitude == CalcAmplitude(t)
                     offset_x == FMul(amplitude, SinTurns(angle))
                     offset_y == FMul(amplitude,
                                      SinTurns(RAdd(angle, <<1, 4>>)))
                     moved == Apply(position, last_vector, offset_x, offset_y)
                     offset == <<offset_x, offset_y, 0>>
                 IN  /\ call' = [Call("update", delta_time, FALSE, Zero,
                                      amplitude)
                                    EXCEPT !.stopped = ShakeOver(t)]
                     /\ IF ShakeOver(t)
                        THEN /\ position' = Undo(moved, offset)
                             /\ ResetTransient
                             /\ shaking' = FALSE
                        ELSE /\ position' = moved
                             /\ last_vector' = offset
                             /\ length_shaking' = t
                             /\ UNCHANGED <<shaking, current_dir,
                                            last_update_time>>
    /\ run' = CASE run = "started" /\ last_vector' # <<0, 0, 0>> -> "shaken"
                 [] run \in {"started", "shaken"} -> run
                 [] OTHER -> "none"

---------------------------------------------------------------------------
(* The camera position is shared: other code writes it too *)

\* another writer translates _data.position by e between two calls of the
\* controller
Write(e) ==
    /\ writes < MaxWrites
    /\ writes' = writes + 1
    /\ position' = <<position[1] + e[1], position[2] + e[2],
                     position[3] + e[3]>>
    /\ written' = <<written[1] + e[1], written[2] + e[2], written[3] + e[3]>>
    /\ UNCHANGED <<config, transient, call, first_position, start_position,
                   run, leaks>>

---------------------------------------------------------------------------
(* Property setters *)

\* a wrong ratio: the old duration over the new one
RescaleRatioInverted(d) == RDiv(Duration, d)

\* duration (setter): the ratio both durations are scaled by
RescaleRatio(d) == RDiv(d, Duration)

\* a wrong test: < where the code has <=
DisablesFalloffStrict(d) == RLt(d, Zero)

\* duration (setter): the argument that disables falloff
DisablesFalloff(d) == RLe(d, Zero)

\* duration (setter)
SetDuration(d) ==
    /\ UNCHANGED <<position, transient, history, max_amplitude,
                   shake_frequency, direction_deg>>
    /\ IF DisablesFalloff(d)
       THEN /\ falloff_duration' = <<-1, 1>>
            /\ UNCHANGED acceleration_duration
            /\ call' = Returned("duration=", d)
       ELSE IF IsNeg(falloff_duration)
       THEN /\ acceleration_duration' = d
            /\ UNCHANGED falloff_duration
            /\ call' = Returned("duration=", d)
       ELSE IF IsZero(Duration)
       THEN /\ UNCHANGED <<acceleration_duration, falloff_duration>>
            /\ call' = Raised("duration=", d)
       ELSE LET ratio == RescaleRatio(d) IN
            /\ acceleration_duration' = RMul(ratio, acceleration_duration)
            /\ falloff_duration' = RMul(ratio, falloff_duration)
            /\ call' = Returned("duration=", d)

\* acceleration_duration (setter)
SetAccelerationDuration(d) ==
    /\ acceleration_duration' = IF IsNeg(d) THEN Zero ELSE d
    /\ call' = Returned("acceleration_duration=", d)
    /\ UNCHANGED <<position, transient, history, max_amplitude,
                   shake_frequency, direction_deg, falloff_duration>>

\* acceleration (setter)
SetAcceleration(a) ==
    /\ acceleration_duration' =
           IF RLe(a, Zero) THEN Zero ELSE RDiv(<<1, 1>>, a)
    /\ call' = Returned("acceleration=", a)
    /\ UNCHANGED <<position, transient, history, max_amplitude,
                   shake_frequency, direction_deg, falloff_duration>>

\* falloff (setter)
SetFalloff(f) ==
    /\ falloff_duration' =
           IF RLe(f, Zero)
           THEN <<-1, 1>>
           ELSE RMul(<<15, 8>>, RDiv(<<1, 1>>, f))
    /\ call' = Returned("falloff=", f)
    /\ UNCHANGED <<position, transient, history, max_amplitude,
                   shake_frequency, direction_deg, acceleration_duration>>

\* falloff_duration is a plain attribute: any value can be assigned
AssignFalloffDuration(d) ==
    /\ falloff_duration' = d
    /\ call' = Returned("falloff_duration=", d)
    /\ UNCHANGED <<position, transient, history, max_amplitude,
                   shake_frequency, direction_deg, acceleration_duration>>

---------------------------------------------------------------------------
(* Property getters *)

Get(c) == call' = c /\ UNCHANGED <<position, config, transient, history>>

\* duration
GetDuration == Get(Call("duration", Zero, FALSE, Duration, 0))

\* acceleration
GetAcceleration == Get(Call("acceleration", Zero, FALSE, Acceleration, 0))

\* falloff
GetFalloff ==
    Get(IF FalloffRaises
        THEN Raised("falloff", Zero)
        ELSE Call("falloff", Zero, FALSE, Falloff, 0))

\* current_amplitude
GetCurrentAmplitude ==
    Get(IF CalcMaxAmpRaises(length_shaking)
        THEN Raised("current_amplitude", Zero)
        ELSE Call("current_amplitude", Zero, FALSE, Zero,
                  CurrentAmplitude(length_shaking)))

---------------------------------------------------------------------------
\* the controller in use: the shake is started, driven, reset and stopped;
\* while it runs it is reconfigured through the duration setter, which can
\* disable falloff, set the acceleration duration and rescale both durations
Next ==
    \/ Reset
    \/ Start
    \/ Stop
    \/ \E dt \in DeltaTimes, angle \in Angles : Update(dt, angle)
    \/ \E d \in ShakeDurationArgs : SetDuration(d) /\ DurationsWithin(MaxDen)
    \/ GetCurrentAmplitude

Spec == Init /\ [][Next]_vars

\* the controller being configured: the properties are set and read
NextConfig ==
    \/ \E d \in DurationArgs : SetDuration(d) /\ DurationsWithin(MaxConfigDen)
    \/ \E d \in AccelerationDurationArgs : SetAccelerationDuration(d)
    \/ \E a \in AccelerationArgs : SetAcceleration(a)
    \/ \E f \in FalloffArgs : SetFalloff(f)
    \/ \E d \in FalloffTimes : AssignFalloffDuration(d)
    \/ GetDuration
    \/ GetAcceleration
    \/ GetFalloff
    \/ GetCurrentAmplitude

SpecConfig == Init /\ [][NextConfig]_vars

\* the controller shaking a camera that other code moves: a shake is
\* started, driven and stopped, and started again when it is over
NextShared ==
    \/ ~shaking /\ Start
    \/ Stop
    \/ \E dt \in DeltaTimes, angle \in Angles : Update(dt, angle)
    \/ \E e \in Translations : Write(e)

SpecShared == Init /\ [][NextShared]_vars

---------------------------------------------------------------------------
(* Claims *)

Origin == <<0, 0, 0>>
Plus(pos, vec) == <<pos[1] + vec[1], pos[2] + vec[2], pos[3] + vec[3]>>

\* C1: in every reachable state the camera position is its value before the
\* controller's first mutation plus exactly the last offset; the controller
\* leaves no other offset on the position.
C1_PositionIsFirstPlusLastOffset ==
    position = Plus(first_position, last_vector)

\* C2: start() on a controller that is not shaking, then any number of
\* update(dt), dt >= 0, then stop(): the camera position after stop() is the
\* position immediately before start(), in all three components.
C2_Reversible ==
    run \in {"stopped", "restored"} => position = start_position

\* C2 happens: stop() has just undone a shake whose updates moved the camera
C2_Witness ==
    /\ run = "restored"
    /\ call.op = "stop"
    /\ position = start_position

\* C3: with falloff disabled, an update(dt) of a shaking controller leaves
\* it shaking, also when it brings the elapsed time past the acceleration
\* duration.  (Stated for acceleration durations >= 0.)
C3_HoldsUntilStopped ==
    [][(/\ shaking
        /\ IsNeg(falloff_duration)
        /\ ~IsNeg(acceleration_duration)
        /\ call'.op = "update") => shaking']_vars

\* C4: with falloff enabled, after every update(dt) that returns with the
\* controller still shaking the elapsed time is below the duration; an
\* update that returns with the controller not shaking leaves the last
\* offset and the elapsed time at zero.
C4_AutoStop ==
    (call.op = "update" /\ ~call.raised /\ ~IsNeg(falloff_duration)) =>
        IF shaking
        THEN RLt(length_shaking, Duration)
        ELSE last_vector = Origin /\ length_shaking = Zero

\* C4 happens: an update() of a shaking controller with falloff enabled has
\* reached the duration and stopped the shake by itself
C4_Witness ==
    /\ call.op = "update"
    /\ call.stopped
    /\ RLt(Zero, falloff_duration)
    /\ RLt(Zero, acceleration_duration)
    /\ run = "shaken"
    /\ ~shaking
    /\ last_vector = Origin
    /\ length_shaking = Zero

\* C5: in every update(dt) of a shaking controller the amplitude the offset
\* is built from is current_amplitude, the envelope times max_amplitude
\* times the sine, at the new elapsed time.  (Stated for acceleration
\* durations >= 0 with falloff enabled: the rise and the decay phase.)
C5_AmplitudeIsCurrentAmplitude ==
    [][(/\ shaking
        /\ ~IsNeg(acceleration_duration)
        /\ ~IsNeg(falloff_duration)
        /\ call'.op = "update"
        /\ ~call'.raised) =>
          call'.amp = CurrentAmplitude(RAdd(length_shaking, call'.arg))]_vars

\* C6: no operation raises an exception, whatever the configuration; with
\* an acceleration duration of 0, update(0) after start() and reading
\* current_amplitude at elapsed time 0 complete normally.
C6_NoOperationRaises == ~call.raised

\* C7: the acceleration and falloff getters return a value for every stored
\* acceleration duration and falloff duration, 0 included.
C7_GettersReturn ==
    call.op \in {"acceleration", "falloff"} => ~call.raised

\* C8: with falloff disabled and the elapsed time past the acceleration
\* duration, the envelope is exactly 1 and current_amplitude is
\* max_amplitude times the sine: max_amplitude is applied once.  (Stated
\* for acceleration durations >= 0.)
C8_HoldAmplitude ==
    (/\ call.op = "current_amplitude"
     /\ ~call.raised
     /\ IsNeg(falloff_duration)
     /\ ~IsNeg(acceleration_duration)
     /\ RLt(acceleration_duration, length_shaking)) =>
        /\ CalcMaxAmp(length_shaking) = AmpScale
        /\ call.amp = FMul(max_amplitude,
                           SinTurns(RMul(shake_frequency, length_shaking)))

\* C9: the stored acceleration duration is never negative, whichever entry
\* point supplied it (constructor, acceleration_duration, acceleration and
\* duration setters).
C9_AccelerationDurationNotNegative == ~IsNeg(acceleration_duration)

\* C10: with falloff enabled and a duration above 0, setting the duration
\* to d > 0 multiplies the acceleration duration and the falloff duration by
\* d over the old duration, keeps their proportion, and the duration getter
\* then returns d.
C10_DurationRescale ==
    [][(/\ call'.op = "duration="
        /\ RLt(Zero, call'.arg)
        /\ ~IsNeg(falloff_duration)
        /\ RLt(Zero, Duration)) =>
          /\ ~call'.raised
          /\ RMul(acceleration_duration', Duration)
                 = RMul(call'.arg, acceleration_duration)
          /\ RMul(falloff_duration', Duration)
                 = RMul(call'.arg, falloff_duration)
          /\ RMul(acceleration_duration', falloff_duration)
                 = RMul(falloff_duration', acceleration_duration)
          /\ Duration' = call'.arg]_vars

\* C10 happens: the duration setter has rescaled two positive durations to
\* values the constructor was not given
C10_Witness ==
    /\ call.op = "duration="
    /\ ~call.raised
    /\ RLt(Zero, call.arg)
    /\ RLt(Zero, acceleration_duration)
    /\ RLt(Zero, falloff_duration)
    /\ acceleration_duration \notin AccelerationDurations
    /\ falloff_duration \notin FalloffTimes
    /\ Duration = call.arg

\* C11: a duration assignment of D <= 0 sets falloff_duration to -1 and
\* leaves the acceleration duration alone; with falloff disabled, an
\* assignment of D > 0 only sets the acceleration duration to D; so no
\* duration assignment takes falloff from disabled to enabled.
C11_DisabledIsAbsorbing ==
    [][call'.op = "duration=" =>
         /\ RLe(call'.arg, Zero) =>
               /\ falloff_duration' = <<-1, 1>>
               /\ acceleration_duration' = acceleration_duration
         /\ (IsNeg(falloff_duration) /\ RLt(Zero, call'.arg)) =>
               /\ acceleration_duration' = call'.arg
               /\ falloff_duration' = falloff_duration
         /\ IsNeg(falloff_duration) => IsNeg(falloff_duration')
         /\ ~call'.raised \/ ~IsNeg(falloff_duration)]_vars

\* a positive duration was assigned with falloff disabled (an enabled falloff
\* is never negative after a rescale) and became the acceleration duration
C11_Witness ==
    /\ call.op = "duration="
    /\ RLt(Zero, call.arg)
    /\ IsNeg(falloff_duration)
    /\ acceleration_duration = call.arg
    /\ acceleration_duration \notin AccelerationDurations

\* C12: stop() on a controller that is not shaking leaves the camera
\* position where it is and the controller not shaking, with a zero last
\* offset and zero elapsed time; a stop() right after a stop() changes
\* neither the position nor the controller.
C12_StopWhenNotShaking ==
    [][(~shaking /\ call'.op = "stop") =>
         /\ position' = position
         /\ ~shaking'
         /\ last_vector' = Origin
         /\ length_shaking' = Zero
         /\ call.op = "stop" =>
               <<config, transient>>' = <<config, transient>>]_vars

\* stop() has been called on a controller that was not shaking
C12_Witness ==
    /\ call.op = "stop"
    /\ ~call.was_shaking
    /\ ~shaking
    /\ position = first_position
    /\ leaks = 0

\* C13: update(dt) on a controller that is not shaking changes nothing: the
\* camera position, the elapsed time, the last offset, the shaking flag and
\* the configuration are as before, for every dt.
C13_UpdateWhenNotShaking ==
    [][(~shaking /\ call'.op = "update") =>
         /\ ~call'.raised
         /\ UNCHANGED <<position, config, transient>>]_vars

\* update(dt) with dt > 0 has been called on a controller that was not
\* shaking
C13_Witness ==
    /\ call.op = "update"
    /\ ~call.was_shaking
    /\ RLt(Zero, call.arg)
    /\ ~shaking

\* C14: start(), from a shaking controller or not, leaves the elapsed time
\* at 0, the last offset at (0, 0, 0), the direction state at 0 and the
\* controller shaking, and does not change the configuration; a start()
\* right after a start() leaves the controller state as the first left it.
C14_Start ==
    [][call'.op = "start" =>
         /\ ~call'.raised
         /\ length_shaking' = Zero
         /\ last_vector' = Origin
         /\ current_dir' = Zero
         /\ last_update_time' = Zero
         /\ shaking'
         /\ config' = config
         /\ call.op = "start" => transient' = transient]_vars

\* start() has been called on a shaking controller whose offset was on the
\* camera
C14_Witness ==
    /\ call.op = "start"
    /\ call.was_shaking
    /\ shaking
    /\ last_vector = Origin
    /\ length_shaking = Zero
    /\ position # first_position

\* C15: with direction_deg set, update(dt) does not depend on the random
\* source: whatever angle the random source would draw, the state after the
\* call (camera position and controller) is the same one.  Two controllers
\* with equal configuration and position driven by the same update(dt)
\* calls are therefore equal after every step.
C15_FixedDirectionDeterminism ==
    [][(direction_deg # None /\ call'.op = "update") =>
         \A angle \in Angles : Update(call'.arg, angle)]_vars

\* update(dt) has moved the camera along the fixed direction
C15_Witness ==
    /\ call.op = "update"
    /\ call.was_shaking
    /\ direction_deg # None
    /\ last_vector # Origin
    /\ position = Plus(start_position, last_vector)

\* C16: the envelope (_calc_max_amp) is 0 at t = 0 for every configuration,
\* is 1.0 within 1e-3 at t = acceleration duration, and with falloff enabled
\* is 0 at t = duration and at every t > duration.  (Stated for the
\* configurations with a non-negative acceleration duration.)
C16_EnvelopeBoundaries ==
    ~IsNeg(acceleration_duration) =>
      /\ ~CalcMaxAmpRaises(Zero)
      /\ CalcMaxAmp(Zero) = 0
      /\ Abs(CalcMaxAmp(acceleration_duration) - AmpScale)
            <= AmpScale \div 1000
      /\ ~IsNeg(falloff_duration) =>
            /\ CalcMaxAmp(Duration) = 0
            /\ \A dt \in DeltaTimes \ {Zero} :
                   CalcMaxAmp(RAdd(Duration, dt)) = 0

\* C17: the duration setter is total: for every argument and every stored
\* configuration, an acceleration duration of 0 with a falloff duration of
\* 0 included, the assignment completes without an exception.  (Stated for
\* the configurations with a non-negative acceleration duration.)
C17_DurationSetterIsTotal ==
    (call.op = "duration=" /\ ~IsNeg(acceleration_duration)) => ~call.raised

\* C18: in every reachable state in which the controller is not shaking, the
\* last offset is (0, 0, 0) and the elapsed time is 0, whatever sequence of
\* start(), update(dt), stop(), reset() and configuration changes led there.
C18_NotShakingIsClean ==
    ~shaking => (last_vector = Origin /\ length_shaking = Zero)

\* stop() has ended a shake whose offset was on the camera
C18_Witness ==
    /\ ~shaking
    /\ call.op = "stop"
    /\ call.was_shaking
    /\ run = "restored"
    /\ last_vector = Origin
    /\ length_shaking = Zero

\* C20: the controller never changes the z component of the camera
\* position: the z component of the last offset is 0 in every reachable
\* state, and every start(), update(dt) and stop() leaves the z of the
\* position as it was before the call.
C20_ZIsUntouched ==
    [][/\ last_vector[3] = 0
       /\ last_vector'[3] = 0
       /\ call'.op \in {"start", "update", "stop", "reset"} =>
             position'[3] = position[3]]_vars

\* update(dt) has moved the camera in x or y
C20_Witness ==
    /\ call.op = "update"
    /\ call.was_shaking
    /\ last_vector # Origin
    /\ last_vector[3] = 0
    /\ position # first_position
    /\ position[3] = first_position[3]

\* C19: update() and stop() change the shared position by relative deltas
\* only, so what another writer adds to the position between two calls of
\* start()/update()/stop() is preserved: with e the sum of those
\* translations since start(), the position after an update() is (position
\* at start() + e + last offset) and after stop() it is (position at
\* start() + e).
C19_TranslationsPreserved ==
    /\ run \in {"started", "shaken"} =>
          position = Plus(Plus(start_position, written), last_vector)
    /\ run \in {"stopped", "restored"} =>
          position = Plus(start_position, written)

\* another writer has moved the camera twice during a shake that had an
\* offset on the camera, and stop() has ended the shake
C19_Witness ==
    /\ call.op = "stop"
    /\ run = "restored"
    /\ written \notin Translations \cup {Origin}
    /\ position = Plus(start_position, written)

=============================================================================
